---- MODULE Spec2Model ----
(***************************************************************************)
(* A model of src/agent.py: the action dispatcher (execute_computer_tool), *)
(* the step-graph queries, the stream decoder (collect_from_stream), the   *)
(* history manager (strip_old_images and the truncation of the log), the   *)
(* rate-limit wait (wait_until_itpm_reset) and the loop that ties them     *)
(* together (run_agent_loop, called by main).                              *)
(*                                                                         *)
(* Python values are tagged records: None is [t |-> "null"], a str is      *)
(* [t |-> "str", v |-> s], a number [t |-> "num", v |-> n], a list         *)
(* [t |-> "list", v |-> <<...>>].  A dict with string keys is a function   *)
(* whose DOMAIN is its key set; dict.get is Get.                           *)
(***************************************************************************)
EXTENDS Integers, Sequences, FiniteSets, TLC

VARIABLES
    PROCESSSTEP,      \* global action counter (agent.py:53)
    PROCESSSTEP_ID,   \* global step-graph cursor (agent.py:52)
    graph_db,         \* the Neo4j connection handed to the dispatcher, or None
    last,             \* the most recent execute_computer_tool call and its return
    pc,               \* where run_agent_loop / main stands
    max_iterations,   \* run_agent_loop's argument
    i,                \* the for loop's variable
    steps,            \* run_agent_loop's local steps
    messages,         \* the message log
    stream,           \* the events of the response being decoded
    tool_calls,       \* the decoded tool invocations of this iteration
    tool_results,     \* the tool_result blocks built so far in this iteration
    flag,             \* the flag of the latest dispatch (read after the for loop)
    TIME_TO_WAIT,     \* run_agent_loop's local: the reset header of the last response
    wait_args,        \* the arguments of the running wait_until_itpm_reset call
    wait,             \* the seconds it sleeps, in microseconds
    result,           \* how run_agent_loop ended and what it returned
    reported,         \* the action count main logged and wrote to steps.txt
    scenario,         \* which responses the provider draws from
    budget,           \* how many more out-of-the-ordinary events the run may see
    decoder,          \* collect_from_stream's locals, event by event
    strip_calls       \* how often strip_old_images ran on the log

dispVars == <<PROCESSSTEP, PROCESSSTEP_ID, graph_db, last>>
loopVars == <<pc, max_iterations, i, steps, tool_calls, tool_results, flag,
              TIME_TO_WAIT, result, reported, scenario, budget>>
waitVars == <<wait_args, wait>>
vars == <<PROCESSSTEP, PROCESSSTEP_ID, graph_db, last, pc, max_iterations, i, steps,
          messages, stream, tool_calls, tool_results, flag, TIME_TO_WAIT, wait_args,
          wait, result, reported, scenario, budget, decoder, strip_calls>>

----------------------------------------------------------------------------
(* Python values *)

None == [t |-> "null"]
Str(s) == [t |-> "str", v |-> s]
Num(n) == [t |-> "num", v |-> n]
List(q) == [t |-> "list", v |-> q]

\* dict.get(key): the value, or None when the key is absent
Get(d, key) == IF key \in DOMAIN d THEN d[key] ELSE None

\* isinstance(x, str), isinstance(x, list), isinstance(x, (int, float))
IsStr(x) == x.t = "str"
IsList(x) == x.t = "list"
IsNum(x) == x.t = "num"

\* isinstance(x, dict): a dict carries no tag
IsDict(x) == "t" \notin DOMAIN x

\* Python truth value of x
Truthy(x) ==
    IF x.t = "null" THEN FALSE
    ELSE IF x.t = "str" THEN x.v # ""
    ELSE IF x.t = "num" THEN x.v # 0
    ELSE IF x.t = "list" THEN Len(x.v) > 0
    ELSE TRUE

----------------------------------------------------------------------------
(* The step graph (py2neo Graph): Step nodes with a string id and a        *)
(* description, NEXT relationships between them.                           *)

MaxStepId == 4

\* str(step_id)
PyStr(n) == ToString(n)

\* the integers int(s) can yield for the ids of the model's graphs
IntRange == (0 - 1) .. (MaxStepId + 1)

\* int(s) succeeds iff s is a decimal numeral
IsNumeral(s) == \E n \in IntRange : PyStr(n) = s
PyInt(s) == CHOOSE n \in IntRange : PyStr(n) = s

NoGraph == [t |-> "none"]

ChainGraph ==
    [t |-> "graph",
     steps |-> {[id |-> "1", description |-> "d1"],
                [id |-> "2", description |-> "d2"],
                [id |-> "3", description |-> "d3"]},
     next |-> {<<"1", "2">>, <<"2", "3">>}]

\* two steps name the same successor; one id is not a numeral
MergeGraph ==
    [t |-> "graph",
     steps |-> {[id |-> "1", description |-> "d1"],
                [id |-> "a", description |-> "da"],
                [id |-> "2", description |-> "d2"]},
     next |-> {<<"1", "2">>, <<"a", "2">>}]

Graphs == {NoGraph, ChainGraph, MergeGraph}

NoPrev == "Es existiert kein vorheriger Schritt. Gehe zum letzten Schritt zurueck."
NoNext == "Es existiert kein nachfolgender Schritt. Gehe zum letzten Schritt zurueck."
NoCurr == "Der aktuellen Schritt existiert nicht. Gehe zum letzten Schritt zurueck."

\* MATCH (p:Step)-[:NEXT]->(c:Step {id:$sid}) RETURN p.id, p.description
PrevRows(graph, sid) == {p \in graph.steps : <<p.id, sid>> \in graph.next}
\* MATCH (c:Step {id:$sid})-[:NEXT]->(n:Step) RETURN n.id, n.description
NextRows(graph, sid) == {n \in graph.steps : <<sid, n.id>> \in graph.next}
\* MATCH (c:Step {id:$sid}) RETURN c.id, c.description
CurrRows(graph, sid) == {c \in graph.steps : c.id = sid}

\* What a query function returns from the rows of its query: the fallback
\* when there is none, else the first row (the database fixes no order, so
\* any row), whose id int() must accept.  ok = FALSE is a raised ValueError.
StepResult(rows, fallbackId, sentinel) ==
    IF rows = {}
    THEN {[ok |-> TRUE, id |-> fallbackId, description |-> sentinel]}
    ELSE {IF IsNumeral(r.id)
          THEN [ok |-> TRUE, id |-> PyInt(r.id), description |-> r.description]
          ELSE [ok |-> FALSE, id |-> 0, description |-> ""] : r \in rows}

\* get_prev_step, had its fallback kept the id
GetPrevStepStay(graph, step_id) ==
    StepResult(PrevRows(graph, PyStr(step_id)), step_id, NoPrev)

get_prev_step(graph, step_id) ==
    StepResult(PrevRows(graph, PyStr(step_id)), step_id - 1, NoPrev)

get_next_step(graph, step_id) ==
    StepResult(NextRows(graph, PyStr(step_id)), step_id + 1, NoNext)

get_curr_step(graph, step_id) ==
    StepResult(CurrRows(graph, PyStr(step_id)), step_id, NoCurr)

----------------------------------------------------------------------------
(* The action dispatcher *)

\* An effector call: the pyautogui / time primitive, the point it is given
\* (<<>> is the current pointer position), a number (scroll amount, seconds)
\* and a string (button, text, key).
Call(fn, pt, n, s) == [fn |-> fn, pt |-> pt, n |-> n, s |-> s]
NoCall == Call("none", <<>>, 0, "")

PngData == "iVBORw0KGgo"
ExcText == "<str(e)>"
UnknownMsg == "Unbekannte Aktion oder fehlende Parameter"

\* the base64 source dict of a screenshot
ImageSource(data) == [type |-> "base64", media_type |-> "image/png", data |-> data]

\* One way a call of execute_computer_tool can end: its return value
\* (flag, result, is_error), the globals it leaves, the effector call it
\* made and whether that call raised.
Outcome(kind, payload, is_error, P, PID, call, raised) ==
    [flag |-> kind, result |-> payload, is_error |-> is_error,
     PROCESSSTEP |-> P, PROCESSSTEP_ID |-> PID, call |-> call, raised |-> raised]

\* Caught, had the counter been raised before the effector call
CaughtCounted(P, PID, call) == Outcome("text", Str(ExcText), TRUE, P + 1, PID, call, TRUE)

\* the except branch (agent.py:356-358): the globals are as before the call
Caught(P, PID, call) == Outcome("text", Str(ExcText), TRUE, P, PID, call, TRUE)

\* tool_input.get on a value that is no dict (agent.py:242) raises outside
\* the try: the exception leaves execute_computer_tool
Escaped(P, PID) == Outcome("raise", None, TRUE, P, PID, NoCall, FALSE)

\* Done1 without its PROCESSSTEP += 1
Done1Uncounted(P, PID, call) == Outcome("text", Str(""), FALSE, P, PID, call, FALSE)

\* a branch that returns "text", "", False after PROCESSSTEP += 1
Done1(P, PID, call) == Outcome("text", Str(""), FALSE, P + 1, PID, call, FALSE)

\* An effector call either returns or raises; mustRaise marks the calls
\* that raise on their arguments alone.
Physical(P, PID, call, mustRaise) ==
    IF mustRaise THEN {Caught(P, PID, call)}
    ELSE {Done1(P, PID, call), Caught(P, PID, call)}

\* ClickAt, had it never passed the coordinate on
ClickAtPointer(P, PID, fn, button, coord) ==
    Physical(P, PID, Call(fn, <<>>, 0, button), FALSE)

\* pyautogui.click(coord[0], coord[1], ...) or pyautogui.click(...):
\* coord[1] of a one-element list raises IndexError
ClickAt(P, PID, fn, button, coord) ==
    IF Truthy(coord)
    THEN Physical(P, PID, Call(fn, IF IsList(coord) THEN coord.v ELSE <<>>, 0, button),
                  ~IsList(coord) \/ Len(coord.v) < 2)
    ELSE Physical(P, PID, Call(fn, <<>>, 0, button), FALSE)

\* the else branch (agent.py:350-354)
UnknownAction(P, PID) ==
    Outcome("text", Str(UnknownMsg), TRUE, P + 1, PID, NoCall, FALSE)

\* prev / next / curr: the tuple assignment sets the cursor only when the
\* query function returned
Navigate(P, PID, graph, fn, results) ==
    IF graph = NoGraph
    THEN {Caught(P, PID, Call(fn, <<>>, PID, ""))}
    ELSE {IF r.ok
          THEN Outcome("text", Str(r.description), FALSE, P, r.id, Call(fn, <<>>, PID, ""), FALSE)
          ELSE Caught(P, PID, Call(fn, <<>>, PID, "")) : r \in results}
         \cup {Caught(P, PID, Call(fn, <<>>, PID, ""))}

\* Scroll, had down used the sign of up
ScrollUnsigned(P, PID, scroll_dir, scroll_amt) ==
    LET amt == 100 * (IF Truthy(scroll_amt) THEN scroll_amt.v ELSE 0)
    IN  IF scroll_dir \in {Str("up"), Str("down")}
        THEN Physical(P, PID, Call("scroll", <<>>, amt, ""), FALSE)
        ELSE Physical(P, PID, Call("hscroll", <<>>, amt, ""), FALSE)

\* the scroll branch (agent.py:320-328)
Scroll(P, PID, scroll_dir, scroll_amt) ==
    LET amt == 100 * (IF Truthy(scroll_amt) THEN scroll_amt.v ELSE 0)
    IN  IF scroll_dir = Str("up") THEN Physical(P, PID, Call("scroll", <<>>, amt, ""), FALSE)
        ELSE IF scroll_dir = Str("down") THEN Physical(P, PID, Call("scroll", <<>>, 0 - amt, ""), FALSE)
        ELSE IF scroll_dir = Str("left") THEN Physical(P, PID, Call("hscroll", <<>>, 0 - amt, ""), FALSE)
        ELSE Physical(P, PID, Call("hscroll", <<>>, amt, ""), FALSE)

\* execute_computer_tool(tool_input, graph_db) with the globals at P, PID:
\* the set of ways the call can end.
execute_computer_tool(tool_input, graph, P, PID) ==
    LET input == IF IsDict(tool_input) THEN tool_input ELSE <<>>
        action == Get(input, "action")
        text == Get(input, "text")
        coord == Get(input, "coordinate")
        scroll_dir == Get(input, "scroll_direction")
        scroll_amt == Get(input, "scroll_amount")
        duration == Get(input, "duration")
    IN  IF ~IsDict(tool_input) THEN {Escaped(P, PID)}
        ELSE IF action = Str("screenshot")
        THEN {Outcome("image", ImageSource(PngData), FALSE, P + 1, PID,
                      Call("screenshot", <<>>, 0, ""), FALSE),
              Caught(P, PID, Call("screenshot", <<>>, 0, ""))}
        ELSE IF action = Str("mouse_move") /\ IsList(coord)
        THEN Physical(P, PID, Call("moveTo", coord.v, 0, ""), FALSE)
        ELSE IF action = Str("left_click")
        THEN ClickAt(P, PID, "click", "left", coord)
        ELSE IF action = Str("right_click")
        THEN ClickAt(P, PID, "click", "right", coord)
        ELSE IF action = Str("double_click")
        THEN ClickAt(P, PID, "doubleClick", "", coord)
        ELSE IF action = Str("type") /\ IsStr(text)
        THEN Physical(P, PID, Call("write", <<>>, 0, text.v), FALSE)
        ELSE IF action = Str("key") /\ IsStr(text)
        THEN Physical(P, PID, Call("press", <<>>, 0, text.v), FALSE)
        ELSE IF action = Str("scroll") /\ Truthy(scroll_dir)
        THEN Scroll(P, PID, scroll_dir, scroll_amt)
        ELSE IF action = Str("wait") /\ IsNum(duration)
        THEN Physical(P, PID, Call("sleep", <<>>, duration.v, ""), duration.v < 0)
        ELSE IF action = Str("prev")
        THEN Navigate(P, PID, graph, "get_prev_step",
                      IF graph = NoGraph THEN {} ELSE get_prev_step(graph, PID))
        ELSE IF action = Str("next")
        THEN Navigate(P, PID, graph, "get_next_step",
                      IF graph = NoGraph THEN {} ELSE get_next_step(graph, PID))
        ELSE IF action = Str("curr")
        THEN Navigate(P, PID, graph, "get_curr_step",
                      IF graph = NoGraph THEN {} ELSE get_curr_step(graph, PID))
        ELSE {UnknownAction(P, PID)}

----------------------------------------------------------------------------
(* JSON text.  A document is a sequence of tokens: punctuation Punct(c), and   *)
(* the literals Str(s), Num(n) and None (null).  A streamed fragment is a  *)
(* piece of that sequence and += on the accumulator is \o.                 *)

Punct(c) == [t |-> "punct", v |-> c]

IsLiteral(tok) == tok.t \in {"str", "num", "null"}

ParseFail == [ok |-> FALSE, val |-> None, next |-> 0]
Parsed(val, next) == [ok |-> TRUE, val |-> val, next |-> next]

\* the elements of an array of literals, from toks[pos] to the closing ]
RECURSIVE ParseItems(_, _, _)
ParseItems(toks, pos, acc) ==
    IF pos + 1 > Len(toks) \/ ~IsLiteral(toks[pos]) THEN ParseFail
    ELSE IF toks[pos + 1] = Punct("]")
         THEN Parsed(List(Append(acc, IF toks[pos].t = "null" THEN 0 ELSE toks[pos].v)), pos + 2)
    ELSE IF toks[pos + 1] = Punct(",")
         THEN ParseItems(toks, pos + 2,
                         Append(acc, IF toks[pos].t = "null" THEN 0 ELSE toks[pos].v))
    ELSE ParseFail

\* one value starting at toks[pos]: a literal or an array
ParseValue(toks, pos) ==
    IF pos > Len(toks) THEN ParseFail
    ELSE IF IsLiteral(toks[pos]) THEN Parsed(toks[pos], pos + 1)
    ELSE IF toks[pos] = Punct("[")
         THEN IF pos + 1 <= Len(toks) /\ toks[pos + 1] = Punct("]")
              THEN Parsed(List(<<>>), pos + 2)
              ELSE ParseItems(toks, pos + 1, <<>>)
    ELSE ParseFail

\* the members of an object, from toks[pos] to the closing }; a repeated
\* key keeps its last value
RECURSIVE ParseMembers(_, _, _)
ParseMembers(toks, pos, acc) ==
    IF pos + 1 > Len(toks) \/ toks[pos].t # "str" \/ toks[pos + 1] # Punct(":") THEN ParseFail
    ELSE LET r == ParseValue(toks, pos + 2)
             obj == (toks[pos].v :> r.val) @@ acc
         IN  IF ~r.ok \/ r.next > Len(toks) THEN ParseFail
             ELSE IF toks[r.next] = Punct("}") THEN Parsed(obj, r.next + 1)
             ELSE IF toks[r.next] = Punct(",") THEN ParseMembers(toks, r.next + 1, obj)
             ELSE ParseFail

\* json.loads(text): ok = FALSE is a raised JSONDecodeError
json_loads(toks) ==
    LET r == IF toks = <<>> THEN ParseFail
             ELSE IF toks[1] = Punct("{")
                  THEN IF Len(toks) >= 2 /\ toks[2] = Punct("}") THEN Parsed(<<>>, 3)
                       ELSE ParseMembers(toks, 2, <<>>)
             ELSE ParseValue(toks, 1)
    IN  IF r.ok /\ r.next = Len(toks) + 1 THEN r ELSE ParseFail

----------------------------------------------------------------------------
(* The stream decoder *)

BlockStart(index, stub) ==
    [type |-> "content_block_start", index |-> index, content_block |-> stub]
TextDelta(index, text) ==
    [type |-> "content_block_delta", index |-> index,
     delta |-> [type |-> "text_delta", text |-> text]]
InputJsonDelta(index, toks) ==
    [type |-> "content_block_delta", index |-> index,
     delta |-> [type |-> "input_json_delta", partial_json |-> toks]]
BlockStop(index) == [type |-> "content_block_stop", index |-> index]
MessageStop == [type |-> "message_stop"]
Ping == [type |-> "ping"]

TextStub == [type |-> "text", text |-> ""]
ToolUseStub(id) == [type |-> "tool_use", id |-> id, name |-> "computer", input |-> <<>>]

\* The decoder's locals.  A block is one dict object shared by
\* assistant_blocks, open_blocks and tool_requests: open_blocks and
\* tool_requests hold positions in assistant_blocks.  stopped is set by
\* the break at message_stop, raised by a KeyError.
DecoderInit ==
    [assistant_blocks |-> <<>>, tool_requests |-> <<>>,
     open_blocks |-> <<>>, partial_json |-> <<>>,
     stopped |-> FALSE, raised |-> FALSE]

\* AddText with the operands of + exchanged
AddTextPrepend(blk, text) ==
    IF "text" \in DOMAIN blk THEN [blk EXCEPT !.text = text \o @]
    ELSE ("text" :> text) @@ blk

\* blk["text"] = blk.get("text", "") + ev.delta.text
AddText(blk, text) ==
    IF "text" \in DOMAIN blk THEN [blk EXCEPT !.text = @ \o text]
    ELSE ("text" :> text) @@ blk

\* blk["input"] = value
SetInput(blk, value) ==
    IF "input" \in DOMAIN blk THEN [blk EXCEPT !.input = value]
    ELSE ("input" :> value) @@ blk

\* AddJson with the operands of += exchanged
AddJsonPrepend(acc, frag) == frag \o acc

\* partial_json[ev.index] += ev.delta.partial_json
AddJson(acc, frag) == acc \o frag

\* InputOf without the except clause: the failed parse is stored as it is
InputOfUnguarded(r) == r.val

\* try: json.loads(...) except json.JSONDecodeError: {} (agent.py:409-412)
InputOf(r) == IF r.ok THEN r.val ELSE <<>>

\* d[key] = value on a dict held as a function
Put(d, key, value) == (key :> value) @@ d

\* the body of the for loop (agent.py:386-421) for one event
DecodeEvent(st, ev) ==
    IF ev.type = "content_block_start"
    THEN LET blocks == Append(st.assistant_blocks, ev.content_block)
         IN  [st EXCEPT !.assistant_blocks = blocks,
                        !.open_blocks = Put(@, ev.index, Len(blocks)),
                        !.partial_json = IF ev.content_block.type = "tool_use"
                                         THEN Put(@, ev.index, <<>>) ELSE @]
    ELSE IF ev.type = "content_block_delta"
    THEN IF ev.index \notin DOMAIN st.open_blocks THEN [st EXCEPT !.raised = TRUE]
         ELSE LET at == st.open_blocks[ev.index]
              IN  IF ev.delta.type = "text_delta"
                  THEN [st EXCEPT !.assistant_blocks[at] = AddText(@, ev.delta.text)]
                  ELSE IF ev.delta.type = "input_json_delta"
                  THEN IF ev.index \notin DOMAIN st.partial_json
                       THEN [st EXCEPT !.raised = TRUE]
                       ELSE [st EXCEPT !.partial_json[ev.index] = AddJson(@, ev.delta.partial_json)]
                  ELSE st
    ELSE IF ev.type = "content_block_stop"
    THEN IF ev.index \notin DOMAIN st.open_blocks THEN [st EXCEPT !.raised = TRUE]
         ELSE LET at == st.open_blocks[ev.index]
                  blk == st.assistant_blocks[at]
                  r == json_loads(st.partial_json[ev.index])
              IN  IF blk.type = "tool_use"
                  THEN [st EXCEPT !.assistant_blocks[at] = SetInput(@, InputOf(r)),
                                  !.tool_requests = Append(@, at)]
                  ELSE st
    ELSE IF ev.type = "tool_use"
    THEN LET blocks == Append(st.assistant_blocks, ev)
         IN  [st EXCEPT !.assistant_blocks = blocks,
                        !.tool_requests = Append(@, Len(blocks))]
    ELSE IF ev.type = "message_stop"
    THEN [st EXCEPT !.stopped = TRUE]
    ELSE st

\* DecodeFrom without the break at message_stop
RECURSIVE DecodeAll(_, _, _)
DecodeAll(st, events, pos) ==
    IF pos > Len(events) \/ st.raised THEN st
    ELSE DecodeAll(DecodeEvent(st, events[pos]), events, pos + 1)

\* the for loop over the events from position pos on
RECURSIVE DecodeFrom(_, _, _)
DecodeFrom(st, events, pos) ==
    IF pos > Len(events) \/ st.stopped \/ st.raised THEN st
    ELSE DecodeFrom(DecodeEvent(st, events[pos]), events, pos + 1)

\* what the decoder returns from its locals: the blocks, and the tool-use
\* blocks as they are at the return
Returned(st) ==
    [raised |-> st.raised,
     assistant_blocks |-> IF st.raised THEN <<>> ELSE st.assistant_blocks,
     tool_requests |-> IF st.raised THEN <<>>
                       ELSE [j \in 1 .. Len(st.tool_requests) |->
                                st.assistant_blocks[st.tool_requests[j]]]]

collect_from_stream(events) == Returned(DecodeFrom(DecoderInit, events, 1))

----------------------------------------------------------------------------
(* Tool inputs the provider can send *)

Action(a) == "action" :> Str(a)

PointerKinds == {"mouse_move", "left_click", "right_click", "double_click"}
GuiKinds == {"screenshot"} \cup PointerKinds \cup {"type", "key", "scroll", "wait"}
NavKinds == {"prev", "next", "curr"}
ActionKinds == GuiKinds \cup NavKinds

Coordinates == {List(<<10, 20>>), List(<<10>>)}
Texts == {Str("a"), Num(5)}
Directions == {Str("up"), Str("down"), Str("left"), Str("right"), Str("diagonal"), Str("")}
Amounts == {Num(0), Num(3)}
Durations == {Num(2), Num(0 - 1), Str("2")}

ToolInputs ==
    {Action(a) : a \in ActionKinds \cup {"zoom"}}
    \cup {<<>>, List(<<>>)}
    \cup {Action(a) @@ ("coordinate" :> c) : a \in PointerKinds, c \in Coordinates}
    \cup {Action(a) @@ ("text" :> x) : a \in {"type", "key"}, x \in Texts}
    \cup {Action("scroll") @@ ("scroll_direction" :> d) : d \in Directions}
    \cup {Action("scroll") @@ ("scroll_direction" :> d) @@ ("scroll_amount" :> n) :
            d \in Directions, n \in Amounts}
    \cup {Action("wait") @@ ("duration" :> d) : d \in Durations}

----------------------------------------------------------------------------
(* The history manager *)

WINDOW == 60

\* the body of the inner loop (agent.py:447-450) for one block
StripBlock(blk) ==
    IF "type" \in DOMAIN blk /\ blk.type = "image"
    THEN IF "source" \in DOMAIN blk /\ DOMAIN blk.source # {}
         THEN IF "data" \in DOMAIN blk.source THEN [blk EXCEPT !.source.data = ""] ELSE blk
         ELSE IF "data" \in DOMAIN blk THEN [blk EXCEPT !.data = ""] ELSE blk
    ELSE blk

\* the body of the outer loop (agent.py:442-450) for one message
StripMessage(msg) ==
    IF "content" \in DOMAIN msg /\ IsList(msg.content)
    THEN [msg EXCEPT !.content = List([j \in 1 .. Len(msg.content.v) |->
                                           StripBlock(msg.content.v[j])])]
    ELSE msg

\* the blocks strip_old_images changes, as <<message, block>> positions
StripTargets(log) ==
    UNION {{<<j, k>> : k \in {n \in 1 .. Len(log[j].content.v) :
                                StripBlock(log[j].content.v[n]) # log[j].content.v[n]}} :
             j \in {m \in 1 .. Len(log) :
                      "content" \in DOMAIN log[m] /\ IsList(log[m].content)}}

\* strip_old_images, had its scan stopped at the first payload it blanks
StripNewestOnly(log) ==
    LET targets == StripTargets(log)
        newest == CHOOSE p \in targets :
                      \A q \in targets : q[1] < p[1] \/ (q[1] = p[1] /\ q[2] <= p[2])
    IN  IF targets = {} THEN log
        ELSE [log EXCEPT ![newest[1]].content.v[newest[2]] = StripBlock(@)]

\* strip_old_images(messages): the log it leaves
strip_old_images(log) == [j \in 1 .. Len(log) |-> StripMessage(log[j])]

\* q[-n:]
LastN(q, n) == SubSeq(q, IF Len(q) > n THEN Len(q) - n + 1 ELSE 1, Len(q))

\* messages[:] = [messages[0]] + messages[-60:]
\* Truncate with a window of 59 messages
TruncateOdd(log) == <<log[1]>> \o LastN(log, WINDOW - 1)
Truncate(log) == <<log[1]>> \o LastN(log, WINDOW)

\* the image blocks of a log, at the top level of a message and inside a
\* tool_result's content
ImagesOfContent(content) ==
    IF IsList(content)
    THEN {content.v[j] : j \in {n \in 1 .. Len(content.v) :
                                   "type" \in DOMAIN content.v[n] /\ content.v[n].type = "image"}}
    ELSE {}

NestedImages(content) ==
    IF IsList(content)
    THEN UNION {ImagesOfContent(content.v[j].content) :
                  j \in {n \in 1 .. Len(content.v) :
                           "type" \in DOMAIN content.v[n] /\ content.v[n].type = "tool_result"}}
    ELSE {}

ImageBlocks(log) ==
    UNION {ImagesOfContent(log[j].content) \cup NestedImages(log[j].content) :
             j \in 1 .. Len(log)}

\* the payload of an image block: source["data"], or its own "data"
Payload(blk) ==
    IF "source" \in DOMAIN blk /\ "data" \in DOMAIN blk.source THEN blk.source.data
    ELSE IF "data" \in DOMAIN blk THEN blk.data
    ELSE ""

----------------------------------------------------------------------------
(* The rate-limit wait.  Times are in microseconds, the resolution of      *)
(* timedelta.total_seconds().                                              *)

FudgeMicros == 500000
MicrosPerMilli == 1000

\* float(s) of the retry-after values the model's responses carry;
\* anything else raises ValueError
FloatTable ==
    ("0" :> 0) @@ ("10" :> 10000000) @@ ("1.5" :> 1500000)
    @@ ("0.0004" :> 400) @@ ("-3" :> (0 - 3000000))

Max(a, b) == IF a >= b THEN a ELSE b

\* math.ceil(wait * 1000) / 1000 of a wait that is not negative
CeilMilli(w) == ((w + MicrosPerMilli - 1) \div MicrosPerMilli) * MicrosPerMilli

\* wait_until_itpm_reset(headers, ts, fudge): the time it sleeps, where
\* delta is reset - datetime.now(timezone.utc) at the call
wait_until_itpm_reset(headers, ts, fudge, delta) ==
    LET text == IF "retry-after" \in DOMAIN headers THEN headers["retry-after"] ELSE "0"
        w == IF Truthy(ts) THEN delta + fudge
             ELSE IF text \in DOMAIN FloatTable THEN FloatTable[text] ELSE 0
    IN  CeilMilli(Max(0, w + fudge))

WaitArgs(headers, ts, fudge, delta) ==
    [headers |-> headers, ts |-> ts, fudge |-> fudge, delta |-> delta]
NoWaitArgs == [t |-> "none"]
NoWait == 0 - 1

ResetStamp == Str("2025-07-25T12:34:56Z")
RetryAfter(text) == "retry-after" :> text

----------------------------------------------------------------------------
(* What the variables hold where a specification does not use them *)

Unbound == [t |-> "unbound"]
NoResult == [how |-> "running"]
NoLast == [n |-> 0]

\* the record of one call of execute_computer_tool: the tool_use id, the
\* input, the globals before it, how it ended
LastCall(n, id, tool_input, P, PID, o) ==
    [n |-> n, id |-> id, tool_input |-> tool_input, before |-> P, cursor |-> PID, out |-> o]

GlobalsIdle ==
    /\ PROCESSSTEP = 0
    /\ PROCESSSTEP_ID = 0
    /\ graph_db = NoGraph
    /\ last = NoLast

LoopIdle ==
    /\ pc = "idle"
    /\ max_iterations = 0
    /\ i = 0
    /\ steps = 0
    /\ tool_calls = <<>>
    /\ tool_results = <<>>
    /\ flag = ""
    /\ TIME_TO_WAIT = Unbound
    /\ result = NoResult
    /\ reported = None
    /\ scenario = "none"
    /\ budget = 0

WaitIdle == wait_args = NoWaitArgs /\ wait = NoWait
DecoderIdle == stream = <<>> /\ decoder = DecoderInit
StripIdle == strip_calls = 0

----------------------------------------------------------------------------
(* The dispatcher on its own: any tool input, from any state of the globals *)

MaxDispatch == 2

InitDispatch ==
    /\ PROCESSSTEP = 0
    /\ graph_db \in Graphs
    /\ PROCESSSTEP_ID = (IF graph_db = NoGraph THEN 0 ELSE 1)
    /\ last = NoLast
    /\ LoopIdle /\ WaitIdle /\ DecoderIdle /\ StripIdle
    /\ messages = <<>>

ExecuteTool ==
    /\ last.n < MaxDispatch
    /\ \E tool_input \in ToolInputs :
        \E o \in execute_computer_tool(tool_input, graph_db, PROCESSSTEP, PROCESSSTEP_ID) :
            /\ PROCESSSTEP' = o.PROCESSSTEP
            /\ PROCESSSTEP_ID' = o.PROCESSSTEP_ID
            /\ last' = LastCall(last.n + 1, <<0, last.n + 1>>, tool_input,
                                PROCESSSTEP, PROCESSSTEP_ID, o)
    /\ UNCHANGED <<graph_db, loopVars, waitVars, messages, stream, decoder, strip_calls>>

NextDispatch == ExecuteTool

SpecDispatch == InitDispatch /\ [][NextDispatch]_vars

----------------------------------------------------------------------------
(* The provider's responses to the loop *)

Obj1(action) == <<Punct("{"), Str("action"), Punct(":"), Str(action), Punct("}")>>
ClickJson == Obj1("left_click")
ShotJson == Obj1("screenshot")
ZoomJson == Obj1("zoom")
ListJson == <<Punct("["), Punct("]")>>

\* the stream of a response that asks for the calls of turn, each a
\* tool_use block whose input arrives in two fragments
TurnStream(turn, iter) ==
    [n \in 1 .. 4 * Len(turn) + 1 |->
        IF n = 4 * Len(turn) + 1 THEN MessageStop
        ELSE LET k == ((n - 1) \div 4) + 1
                 r == (n - 1) % 4
             IN  IF r = 0 THEN BlockStart(k - 1, ToolUseStub(<<iter, k>>))
                 ELSE IF r = 1 THEN InputJsonDelta(k - 1, SubSeq(turn[k], 1, 1))
                 ELSE IF r = 2 THEN InputJsonDelta(k - 1, SubSeq(turn[k], 2, Len(turn[k])))
                 ELSE BlockStop(k - 1)]

\* a response with text only, a connection dropped before any event, a
\* delta for a block that was never started
DoneStream == <<BlockStart(0, TextStub), TextDelta(0, "Fertig."), BlockStop(0), MessageStop>>
EmptyStream == <<>>
BrokenStream == <<TextDelta(0, "x"), MessageStop>>

\* The ordinary turn is one click.  A scenario names the other turns the
\* provider may ask for; each of them, a response without the reset header
\* and (in the rich scenario) each failing effector call takes one from the
\* run's budget.
PlainTurn == <<ClickJson>>
LeanTurns == {<<ShotJson>>, <<ShotJson, ClickJson>>, <<ClickJson, ShotJson>>}
RichTurns == LeanTurns \cup {<<ZoomJson>>, <<ListJson>>, <<ShotJson, ShotJson>>}
Turns(sc) == IF sc = "rich" THEN RichTurns ELSE LeanTurns

Response(events, reset, cost) == [stream |-> events, reset |-> reset, cost |-> cost]

Responses(sc, iter, b) ==
    {Response(TurnStream(PlainTurn, iter), ResetStamp, 0)}
    \cup {Response(ev, ResetStamp, 0) : ev \in {DoneStream, EmptyStream, BrokenStream}}
    \cup (IF b > 0 THEN {Response(TurnStream(t, iter), ResetStamp, 1) : t \in Turns(sc)}
          ELSE {})
    \cup (IF b > 0 /\ sc = "rich" THEN {Response(TurnStream(PlainTurn, iter), None, 1)}
          ELSE {})

\* the rate-limit signals a throttled request carries, and the time to
\* the reset when it is read
LoopWaitArgs(ts) ==
    {WaitArgs(RetryAfter("10"), ts, FudgeMicros, 10000000),
     WaitArgs(<<>>, ts, FudgeMicros, 0 - 2000000)}

----------------------------------------------------------------------------
(* run_agent_loop and main *)

UserPrompt == [role |-> "user", content |-> Str("Aufgabe")]
AssistantMsg(blocks) == [role |-> "assistant", content |-> List(blocks)]
\* UserMsg with the results in the opposite order
UserMsgReversed(results) ==
    [role |-> "user",
     content |-> List([j \in 1 .. Len(results) |-> results[Len(results) + 1 - j]])]
UserMsg(results) == [role |-> "user", content |-> List(results)]

\* the tool_result block of one dispatch (agent.py:583-588)
ToolResult(id, o) ==
    [type |-> "tool_result", tool_use_id |-> id,
     content |-> IF o.flag = "image"
                 THEN List(<<[type |-> "image", source |-> o.result]>>)
                 ELSE o.result,
     is_error |-> o.is_error]

Active == {"loop", "awaiting", "sleeping", "dispatching", "truncating"}

\* run_agent_loop is left: its locals are gone
Leave(how, retval, fault) ==
    /\ result' = [how |-> how, retval |-> retval, fault |-> fault, i |-> i, steps |-> steps]
    /\ messages' = <<>>
    /\ tool_calls' = <<>>
    /\ tool_results' = <<>>
    /\ flag' = ""
    /\ TIME_TO_WAIT' = Unbound
    /\ i' = 0
    /\ steps' = 0
    /\ wait_args' = NoWaitArgs
    /\ wait' = NoWait

\* return <retval>
Return(how, retval) == pc' = "returned" /\ Leave(how, retval, "")

\* an exception other than KeyboardInterrupt leaves run_agent_loop and main
Crash(fault) == pc' = "crashed" /\ Leave("crashed", None, fault)

\* for i in range(1, max_iterations + 1), and the lines after the loop
LoopHead ==
    /\ pc = "loop"
    /\ IF i < max_iterations
       THEN /\ i' = i + 1
            /\ pc' = "awaiting"
            /\ UNCHANGED <<steps, messages, tool_calls, tool_results, flag, TIME_TO_WAIT,
                           result, waitVars>>
       ELSE Return(IF steps = max_iterations THEN "exhausted" ELSE "ended", None)
    /\ UNCHANGED <<dispVars, max_iterations, reported, scenario, budget, stream, decoder,
                   strip_calls>>

\* client.beta.messages.create returns a stream; TIME_TO_WAIT is read from
\* its headers; collect_from_stream consumes it; the assistant message is
\* appended (agent.py:562-572)
Receive ==
    /\ pc = "awaiting"
    /\ \E r \in Responses(scenario, i, budget) :
        LET d == collect_from_stream(r.stream)
        IN  IF d.raised
            THEN Crash("KeyError") /\ UNCHANGED budget
            ELSE /\ messages' = Append(messages, AssistantMsg(d.assistant_blocks))
                 /\ tool_calls' = d.tool_requests
                 /\ tool_results' = <<>>
                 /\ TIME_TO_WAIT' = r.reset
                 /\ budget' = budget - r.cost
                 /\ pc' = "dispatching"
                 /\ UNCHANGED <<i, steps, flag, result, waitVars>>
    /\ UNCHANGED <<dispVars, max_iterations, reported, scenario, stream, decoder, strip_calls>>

\* except anthropic.RateLimitError: wait_until_itpm_reset(headers, TIME_TO_WAIT)
RateLimited ==
    /\ pc = "awaiting"
    /\ IF TIME_TO_WAIT = Unbound
       THEN Crash("UnboundLocalError")
       ELSE /\ \E a \in LoopWaitArgs(TIME_TO_WAIT) :
                /\ wait_args' = a
                /\ wait' = wait_until_itpm_reset(a.headers, a.ts, a.fudge, a.delta)
            /\ pc' = "sleeping"
            /\ UNCHANGED <<i, steps, messages, tool_calls, tool_results, flag, TIME_TO_WAIT,
                           result>>
    /\ UNCHANGED <<dispVars, max_iterations, reported, scenario, budget, stream, decoder,
                   strip_calls>>

\* WakeUp, had time.sleep never returned
WakeUpNever ==
    /\ pc = "sleeping"
    /\ UNCHANGED vars

\* time.sleep(wait) returns; continue
WakeUp ==
    /\ pc = "sleeping"
    /\ pc' = "awaiting"
    /\ wait_args' = NoWaitArgs
    /\ wait' = NoWait
    /\ UNCHANGED <<dispVars, max_iterations, i, steps, messages, tool_calls, tool_results,
                   flag, TIME_TO_WAIT, result, reported, scenario, budget, stream, decoder,
                   strip_calls>>

\* any other failure of the request
ProviderError ==
    /\ pc = "awaiting"
    /\ Crash("APIError")
    /\ UNCHANGED <<dispVars, max_iterations, reported, scenario, budget, stream, decoder,
                   strip_calls>>

\* Finish, had it returned steps, the count of whole iterations
FinishAtSteps ==
    /\ pc = "dispatching"
    /\ tool_calls = <<>>
    /\ Return("done", Num(steps))
    /\ UNCHANGED <<dispVars, max_iterations, reported, scenario, budget, stream, decoder,
                   strip_calls>>

\* if not tool_calls: return i
Finish ==
    /\ pc = "dispatching"
    /\ tool_calls = <<>>
    /\ Return("done", Num(i))
    /\ UNCHANGED <<dispVars, max_iterations, reported, scenario, budget, stream, decoder,
                   strip_calls>>

\* one pass of for tc in tool_calls (agent.py:579-588)
Dispatch ==
    /\ pc = "dispatching"
    /\ Len(tool_results) < Len(tool_calls)
    /\ LET tc == tool_calls[Len(tool_results) + 1]
       IN  \E o \in execute_computer_tool(tc.input, graph_db, PROCESSSTEP, PROCESSSTEP_ID) :
            /\ o.raised => (scenario = "rich" /\ budget > 0)
            /\ last' = LastCall(1, tc.id, tc.input, PROCESSSTEP, PROCESSSTEP_ID, o)
            /\ PROCESSSTEP' = o.PROCESSSTEP
            /\ PROCESSSTEP_ID' = o.PROCESSSTEP_ID
            /\ IF o.flag = "raise"
               THEN Crash("AttributeError") /\ UNCHANGED budget
               ELSE /\ flag' = o.flag
                    /\ messages' = IF o.flag = "image" THEN strip_old_images(messages)
                                   ELSE messages
                    /\ tool_results' = Append(tool_results, ToolResult(tc.id, o))
                    /\ budget' = budget - (IF o.raised THEN 1 ELSE 0)
                    /\ UNCHANGED <<pc, i, steps, tool_calls, TIME_TO_WAIT, result, waitVars>>
    /\ UNCHANGED <<graph_db, max_iterations, reported, scenario, stream, decoder, strip_calls>>

\* messages.append({"role": "user", "content": tool_results})
AppendResults ==
    /\ pc = "dispatching"
    /\ tool_calls # <<>>
    /\ Len(tool_results) = Len(tool_calls)
    /\ messages' = Append(messages, UserMsg(tool_results))
    /\ pc' = "truncating"
    /\ UNCHANGED <<dispVars, max_iterations, i, steps, tool_calls, tool_results, flag,
                   TIME_TO_WAIT, result, reported, scenario, budget, waitVars, stream,
                   decoder, strip_calls>>

\* if flag == "image": messages[:] = ... ; steps = i
TruncateLog ==
    /\ pc = "truncating"
    /\ messages' = IF flag = "image" THEN Truncate(messages) ELSE messages
    /\ steps' = i
    /\ pc' = "loop"
    /\ UNCHANGED <<dispVars, max_iterations, i, tool_calls, tool_results, flag,
                   TIME_TO_WAIT, result, reported, scenario, budget, waitVars, stream,
                   decoder, strip_calls>>

\* except KeyboardInterrupt: return
Interrupt ==
    /\ pc \in Active
    /\ Return("cancelled", None)
    /\ UNCHANGED <<dispVars, max_iterations, reported, scenario, budget, stream, decoder,
                   strip_calls>>

\* main after run_agent_loop returned (agent.py:748-755)
MainReport ==
    /\ pc = "returned"
    /\ reported' = Num(PROCESSSTEP)
    /\ pc' = "exited"
    /\ UNCHANGED <<dispVars, max_iterations, i, steps, messages, tool_calls, tool_results,
                   flag, TIME_TO_WAIT, result, scenario, budget, waitVars, stream, decoder,
                   strip_calls>>

MaxIterations == 3
Budget == 3
LongRun == 32
LongBudget == 1

InitLoop ==
    /\ GlobalsIdle
    /\ pc = "loop"
    /\ i = 0
    /\ steps = 0
    /\ messages = <<UserPrompt>>
    /\ tool_calls = <<>>
    /\ tool_results = <<>>
    /\ flag = ""
    /\ TIME_TO_WAIT = Unbound
    /\ result = NoResult
    /\ reported = None
    /\ WaitIdle /\ DecoderIdle /\ StripIdle

Init ==
    /\ InitLoop
    /\ max_iterations \in 0 .. MaxIterations
    /\ scenario = "rich"
    /\ budget = Budget

InitLong ==
    /\ InitLoop
    /\ max_iterations = LongRun
    /\ scenario = "lean"
    /\ budget = LongBudget

Next ==
    \/ LoopHead
    \/ Receive
    \/ RateLimited
    \/ WakeUp
    \/ ProviderError
    \/ Finish
    \/ Dispatch
    \/ AppendResults
    \/ TruncateLog
    \/ Interrupt
    \/ MainReport

Spec == Init /\ [][Next]_vars
\* The loop under the assumptions that every step of the program that can
\* be taken is taken, that time.sleep and the effector calls return (weak
\* fairness), and that the provider accepts a request that is made again
\* and again (strong fairness of Receive, which the sleep between two
\* attempts disables).
Fairness ==
    /\ WF_vars(LoopHead)
    /\ WF_vars(WakeUp)
    /\ WF_vars(Finish)
    /\ WF_vars(Dispatch)
    /\ WF_vars(AppendResults)
    /\ WF_vars(TruncateLog)
    /\ WF_vars(MainReport)
    /\ SF_vars(Receive)

SpecFair == Init /\ [][Next]_vars /\ Fairness
SpecLong == InitLong /\ [][Next]_vars

----------------------------------------------------------------------------
(* strip_old_images on its own: any log of the message shapes of the API *)

MaxLogLen == 3

TextBlock == [type |-> "text", text |-> "ok"]
ImageBlock(data) == [type |-> "image", source |-> ImageSource(data)]
\* an image block that carries its payload itself, without a source
BareImage(data) == [type |-> "image", data |-> data]
ShotResult(id, data) ==
    [type |-> "tool_result", tool_use_id |-> id,
     content |-> List(<<ImageBlock(data)>>), is_error |-> FALSE]

StripMessages ==
    {UserPrompt,
     AssistantMsg(<<TextBlock>>),
     UserMsg(<<ShotResult(<<1, 1>>, PngData)>>),
     UserMsg(<<ImageBlock(PngData)>>),
     UserMsg(<<TextBlock, ImageBlock(PngData), BareImage(PngData)>>),
     UserMsg(<<ImageBlock("")>>)}

StripLogs == UNION {[1 .. n -> StripMessages] : n \in 1 .. MaxLogLen}

InitStrip ==
    /\ GlobalsIdle /\ LoopIdle /\ WaitIdle /\ DecoderIdle
    /\ messages \in StripLogs
    /\ strip_calls = 0

StripAgain ==
    /\ strip_calls < 2
    /\ messages' = strip_old_images(messages)
    /\ strip_calls' = strip_calls + 1
    /\ UNCHANGED <<dispVars, loopVars, waitVars, stream, decoder>>

NextStrip == StripAgain

SpecStrip == InitStrip /\ [][NextStrip]_vars

----------------------------------------------------------------------------
(* wait_until_itpm_reset on its own *)

WaitHeaders ==
    {<<>>} \cup {RetryAfter(text) : text \in {"0", "10", "1.5", "0.0004", "-3", "bald"}}
WaitStamps == {None, Str(""), ResetStamp}
WaitDeltas == {10000000, 1234567, 0, 0 - 400000, 0 - 700000, 0 - 2000000}
WaitFudges == {FudgeMicros, 0}

InitWait ==
    /\ GlobalsIdle /\ LoopIdle /\ DecoderIdle /\ StripIdle
    /\ messages = <<>>
    /\ wait_args \in {WaitArgs(h, ts, f, d) :
                        h \in WaitHeaders, ts \in WaitStamps, f \in WaitFudges, d \in WaitDeltas}
    /\ wait = NoWait

ComputeWait ==
    /\ wait = NoWait
    /\ wait' = wait_until_itpm_reset(wait_args.headers, wait_args.ts, wait_args.fudge,
                                     wait_args.delta)
    /\ UNCHANGED <<dispVars, loopVars, wait_args, messages, stream, decoder, strip_calls>>

NextWait == ComputeWait

SpecWait == InitWait /\ [][NextWait]_vars

----------------------------------------------------------------------------
(* collect_from_stream on its own, event by event *)

MaxEvents == 5

StreamIndexes == {0, 1}
JsonHead == <<Punct("{"), Str("action"), Punct(":")>>
JsonRest == <<Str("screenshot"), Punct("}")>>

StreamEvents ==
    {BlockStart(n, TextStub) : n \in StreamIndexes}
    \cup {BlockStart(n, ToolUseStub(<<0, n>>)) : n \in StreamIndexes}
    \cup {TextDelta(n, text) : n \in StreamIndexes, text \in {"a", "b"}}
    \cup {InputJsonDelta(n, toks) : n \in StreamIndexes, toks \in {JsonHead, JsonRest}}
    \cup {BlockStop(n) : n \in StreamIndexes}
    \cup {MessageStop, Ping}

\* the positions of the events of a type that name an index
Positions(events, type, index) ==
    {n \in 1 .. Len(events) :
        /\ events[n].type = type
        /\ events[n].index = index}

StopAt(events) == {n \in 1 .. Len(events) : events[n].type = "message_stop"}

\* the position of the first MessageStop of a sequence, 0 when it has none
FirstStop(events) ==
    IF StopAt(events) = {} THEN 0
    ELSE CHOOSE n \in StopAt(events) : \A m \in StopAt(events) : n <= m

\* how many events may follow the first MessageStop
MaxLate == 2

\* The ordering invariant of the provider's streams: per index one
\* BlockStart, then the deltas, then at most one BlockStop (exactly one
\* once the stream is complete); nothing follows MessageStop.
WellFormed(events) ==
    /\ \A n \in StopAt(events) : n = Len(events)
    /\ \A index \in StreamIndexes :
        LET starts == Positions(events, "content_block_start", index)
            deltas == Positions(events, "content_block_delta", index)
            stops == Positions(events, "content_block_stop", index)
        IN  /\ Cardinality(starts) <= 1
            /\ Cardinality(stops) <= 1
            /\ \A d \in deltas \cup stops : \E b \in starts : b < d
            /\ \A d \in deltas : \A e \in stops : d < e

InitStream ==
    /\ GlobalsIdle /\ LoopIdle /\ WaitIdle /\ StripIdle
    /\ messages = <<>>
    /\ stream = <<>>
    /\ decoder = DecoderInit

\* the next event of the stream arrives; the for loop takes it unless it
\* has left at message_stop.  What the provider sends after its message_stop
\* is bound by nothing.
Arrive ==
    /\ Len(stream) < MaxEvents
    /\ ~decoder.raised
    /\ \/ WellFormed(stream)
       \/ decoder.stopped /\ Len(stream) - FirstStop(stream) < MaxLate
    /\ \E ev \in StreamEvents :
        /\ stream' = Append(stream, ev)
        /\ decoder' = IF decoder.stopped THEN decoder ELSE DecodeEvent(decoder, ev)
    /\ UNCHANGED <<dispVars, loopVars, waitVars, messages, strip_calls>>

NextStream == Arrive

SpecStream == InitStream /\ [][NextStream]_vars

----------------------------------------------------------------------------
(* Properties of the dispatcher *)

ActionOf(tool_input) == Get(IF IsDict(tool_input) THEN tool_input ELSE <<>>, "action")
LastKindIn(kinds) == ActionOf(last.tool_input) \in {Str(a) : a \in kinds}

\* the last call returned is_error = False
Succeeded == last.n > 0 /\ last.out.flag # "raise" /\ ~last.out.is_error

Invalid(tool_input) ==
    /\ IsDict(tool_input)
    /\ \/ ActionOf(tool_input) \notin {Str(a) : a \in ActionKinds}
       \/ /\ ActionOf(tool_input) \in {Str("type"), Str("key")}
          /\ ~IsStr(Get(tool_input, "text"))
       \/ /\ ActionOf(tool_input) = Str("scroll")
          /\ Get(tool_input, "scroll_direction") = None
       \/ /\ ActionOf(tool_input) = Str("wait")
          /\ ~IsNum(Get(tool_input, "duration"))

\* C2 (as claimed): an unrecognized action, or a recognized one without its
\* required argument, returns a text payload with is_error = True and
\* leaves PROCESSSTEP unchanged.
C2_InvalidRequestNotCounted ==
    (last.n > 0 /\ Invalid(last.tool_input)) =>
        /\ last.out.flag = "text"
        /\ last.out.is_error
        /\ PROCESSSTEP = last.before

----------------------------------------------------------------------------
(* Properties of the loop *)

\* the tool_result block that reports call c as failed
ErrorResultOf(c) ==
    [type |-> "tool_result", tool_use_id |-> c.id, content |-> c.out.result,
     is_error |-> TRUE]

HasBlock(content, blk) ==
    IsList(content) /\ \E j \in 1 .. Len(content.v) : content.v[j] = blk

\* the failed call is among the results being built, or in a user message
ReportedToProvider(c) ==
    \/ \E j \in 1 .. Len(tool_results) : tool_results[j] = ErrorResultOf(c)
    \/ \E j \in 1 .. Len(messages) :
        messages[j].role = "user" /\ HasBlock(messages[j].content, ErrorResultOf(c))

\* C3: when the effector call of a dispatch raises, the dispatcher returns
\* ("text", message, True) with PROCESSSTEP as it was, the loop is not left
\* by that exception, and the call is reported as a tool_result with
\* is_error = True.
C3_EffectorFailureIsReported ==
    (last.n > 0 /\ last.out.raised) =>
        /\ last.out.flag = "text"
        /\ IsStr(last.out.result)
        /\ last.out.is_error
        /\ last.out.PROCESSSTEP = last.before
        /\ pc = "crashed" => result.fault \in {"KeyError", "APIError", "UnboundLocalError"}
        /\ pc \in Active => ReportedToProvider(last)

\* the click of iteration 1 raised and the loop went on to its next request
C3_Witness ==
    /\ pc = "awaiting"
    /\ i = 2
    /\ last.n > 0
    /\ last.out.raised
    /\ last.id = <<1, 1>>
    /\ PROCESSSTEP = 0
    /\ ReportedToProvider(last)

\* a result of the iteration carried an image
HadImage == \E j \in 1 .. Len(tool_results) : IsList(tool_results[j].content)

\* the step of the truncation statement
TruncationStep == pc = "truncating" /\ pc' = "loop"

\* C4 (as claimed): after an iteration in which some tool result carried an
\* image, wherever among the results, the log has at most 1 + 60 messages
\* and starts with the user instruction; after an iteration without an
\* image the truncation leaves the log as it was.
C4_TruncatedAfterAnyImage ==
    [][TruncationStep =>
        /\ HadImage => (Len(messages') <= 1 + WINDOW /\ messages'[1] = UserPrompt)
        /\ ~HadImage => messages' = messages]_vars

RECURSIVE IsSubseq(_, _)
IsSubseq(a, b) ==
    IF a = <<>> THEN TRUE
    ELSE IF b = <<>> THEN FALSE
    ELSE IF Head(a) = Head(b) THEN IsSubseq(Tail(a), Tail(b))
    ELSE IsSubseq(a, Tail(b))

\* C5 (as claimed): the truncation only removes messages: the log after it
\* is a subsequence of the log before it and no longer, starts with the
\* user instruction and ends with the most recent window.
C5_TruncationOnlyRemoves ==
    [][TruncationStep =>
        /\ IsSubseq(messages', messages)
        /\ Len(messages') <= Len(messages)
        /\ messages'[1] = UserPrompt
        /\ LastN(messages', Len(LastN(messages, WINDOW))) = LastN(messages, WINDOW)]_vars

\* the latest dispatch produced an image, so strip_old_images has just run
JustStripped ==
    /\ pc = "dispatching"
    /\ tool_results # <<>>
    /\ IsList(tool_results[Len(tool_results)].content)

\* C6 (as claimed): after a call of strip_old_images every image block of
\* the log, anywhere in it, has the payload "".
C6_NoPayloadSurvives ==
    JustStripped => \A blk \in ImageBlocks(messages) : Payload(blk) = ""

\* C9 (as claimed): a throttled request, in any iteration, makes the loop
\* sleep a computed time and ask again, with the log and the counters as
\* they were; it never ends the run.
C9_ThrottlingIsRetried ==
    [][/\ RateLimited =>
            /\ pc' = "sleeping"
            /\ wait' >= 0
            /\ UNCHANGED <<messages, PROCESSSTEP, PROCESSSTEP_ID, i>>
       /\ WakeUp =>
            /\ pc' = "awaiting"
            /\ UNCHANGED <<messages, PROCESSSTEP, PROCESSSTEP_ID, i>>]_vars

----------------------------------------------------------------------------
(* Properties of the history manager, the wait and the decoder *)

\* C7: strip_old_images is idempotent: a call that follows another leaves
\* the log as it found it.
C7_StripIdempotent == [][strip_calls >= 1 => messages' = messages]_vars

\* two calls ran on a log of which the first blanked a payload
C7_Witness ==
    /\ strip_calls = 2
    /\ Len(messages) = MaxLogLen
    /\ \E blk \in ImageBlocks(messages) : Payload(blk) = ""
    /\ \E blk \in ImageBlocks(messages) : Payload(blk) # ""

\* float(headers.get("retry-after", "0")), 0 when it does not parse
RetryAfterMicros(headers) ==
    IF "retry-after" \in DOMAIN headers /\ headers["retry-after"] \in DOMAIN FloatTable
    THEN FloatTable[headers["retry-after"]]
    ELSE 0

\* C8 (as claimed): the wait is never negative; with a reset timestamp it
\* is max(0, (reset - now) + fudge) rounded up to the millisecond, without
\* one max(0, retryAfterSeconds + fudge) rounded up to the millisecond.
C8_WaitFormula ==
    wait # NoWait =>
        /\ wait >= 0
        /\ Truthy(wait_args.ts) =>
                wait = CeilMilli(Max(0, wait_args.delta + wait_args.fudge))
        /\ ~Truthy(wait_args.ts) =>
                wait = CeilMilli(Max(0, RetryAfterMicros(wait_args.headers) + wait_args.fudge))

\* the text_delta fragments of the events for one index, concatenated in
\* arrival order
RECURSIVE ConcatText(_, _, _)
ConcatText(events, index, pos) ==
    IF pos > Len(events) THEN ""
    ELSE (IF /\ events[pos].type = "content_block_delta"
             /\ events[pos].index = index
             /\ events[pos].delta.type = "text_delta"
          THEN events[pos].delta.text ELSE "")
         \o ConcatText(events, index, pos + 1)

TextOf(blk) == IF "text" \in DOMAIN blk THEN blk.text ELSE ""

\* the positions of the BlockStart events, in arrival order
StartsOf(events) ==
    LET at == {n \in 1 .. Len(events) : events[n].type = "content_block_start"}
    IN  [j \in 1 .. Cardinality(at) |->
            CHOOSE n \in at : Cardinality({m \in at : m < n}) = j - 1]

\* C10: for a well-formed event sequence the decoded blocks are those of
\* the BlockStart events, in their order, and the text of each is the
\* concatenation, in arrival order, of the text_delta fragments sent to
\* its index.
C10_TextIsConcatenation ==
    (WellFormed(stream) /\ ~decoder.raised) =>
        LET starts == StartsOf(stream)
            blocks == collect_from_stream(stream).assistant_blocks
        IN  /\ Len(blocks) = Len(starts)
            /\ \A j \in 1 .. Len(blocks) :
                /\ blocks[j].type = stream[starts[j]].content_block.type
                /\ TextOf(blocks[j]) = ConcatText(stream, stream[starts[j]].index, 1)

\* two text blocks whose deltas arrived interleaved
C10_Witness ==
    /\ WellFormed(stream)
    /\ Len(stream) = 5
    /\ stream[3] = TextDelta(0, "a")
    /\ stream[4] = TextDelta(1, "b")
    /\ stream[5] = TextDelta(0, "b")
    /\ Len(decoder.assistant_blocks) = 2
    /\ decoder.assistant_blocks[1].text = "ab"
    /\ decoder.assistant_blocks[2].text = "b"

\* the input_json_delta fragments of the events for one index, concatenated
\* in arrival order
RECURSIVE ConcatJson(_, _, _)
ConcatJson(events, index, pos) ==
    IF pos > Len(events) THEN <<>>
    ELSE (IF /\ events[pos].type = "content_block_delta"
             /\ events[pos].index = index
             /\ events[pos].delta.type = "input_json_delta"
          THEN events[pos].delta.partial_json ELSE <<>>)
         \o ConcatJson(events, index, pos + 1)

\* the index whose block is a tool_use block that the latest event closed
ClosedToolUse(index) ==
    /\ stream # <<>>
    /\ WellFormed(stream)
    /\ stream[Len(stream)] = BlockStop(index)
    /\ \E n \in Positions(stream, "content_block_start", index) :
            stream[n].content_block.type = "tool_use"

\* how often the block at a position is among the tool invocations
TimesRequested(st, at) ==
    Cardinality({j \in 1 .. Len(st.tool_requests) : st.tool_requests[j] = at})

\* C11: a tool-use block whose accumulated input_json_delta fragments, the
\* empty accumulation included, are not valid JSON gets the input {} and is
\* recorded as a tool invocation; the decoder does not raise.
C11_InvalidJsonGivesEmptyInput ==
    \A index \in StreamIndexes :
        (ClosedToolUse(index) /\ ~json_loads(ConcatJson(stream, index, 1)).ok) =>
            /\ ~decoder.raised
            /\ LET at == decoder.open_blocks[index]
               IN  /\ decoder.assistant_blocks[at].input = <<>>
                   /\ TimesRequested(decoder, at) = 1
                   /\ LET ret == collect_from_stream(stream)
                      IN  /\ ~ret.raised
                          /\ \E j \in 1 .. Len(ret.tool_requests) :
                                /\ ret.tool_requests[j] = decoder.assistant_blocks[at]
                                /\ ret.tool_requests[j].input = <<>>

\* a tool-use block closed after the second half of a document only
C11_Witness ==
    /\ stream = <<BlockStart(0, ToolUseStub(<<0, 0>>)), InputJsonDelta(0, JsonRest), BlockStop(0)>>
    /\ ~decoder.raised
    /\ decoder.tool_requests = <<1>>
    /\ decoder.assistant_blocks[1].input = <<>>

\* the positions in assistant_blocks of the tool_use blocks
ToolUseAt(st) ==
    {at \in 1 .. Len(st.assistant_blocks) : st.assistant_blocks[at].type = "tool_use"}

\* C12 (as claimed): for every event sequence the decoder has consumed to
\* its MessageStop, each tool-use block among the returned blocks is among
\* the returned tool invocations exactly once.
C12_EveryToolUseRequestedOnce ==
    (decoder.stopped /\ ~decoder.raised) =>
        \A at \in ToolUseAt(decoder) : TimesRequested(decoder, at) = 1

\* every started block has its BlockStop
Complete(events) ==
    \A index \in StreamIndexes :
        Positions(events, "content_block_start", index) # {}
            => Positions(events, "content_block_stop", index) # {}

\* C12 (amended): for every well-formed event sequence in which each
\* tool-use block is closed by its BlockStop, each tool-use block among the
\* returned blocks is among the returned tool invocations exactly once, in
\* BlockStop order, with its input the parse of the concatenation of its
\* fragments in arrival order, or {} where that is not valid JSON.
C12_ClosedToolUseRequestedOnce ==
    (WellFormed(stream) /\ Complete(stream) /\ ~decoder.raised) =>
        LET ret == collect_from_stream(stream)
        IN  /\ Len(ret.tool_requests) = Cardinality(ToolUseAt(decoder))
            /\ \A index \in DOMAIN decoder.open_blocks :
                LET at == decoder.open_blocks[index]
                    parsed == json_loads(ConcatJson(stream, index, 1))
                IN  at \in ToolUseAt(decoder) =>
                        /\ TimesRequested(decoder, at) = 1
                        /\ ret.assistant_blocks[at].input
                             = (IF parsed.ok THEN parsed.val ELSE <<>>)
                        /\ \E j \in 1 .. Len(ret.tool_requests) :
                                ret.tool_requests[j] = ret.assistant_blocks[at]

\* one tool-use block, its input in two fragments, then MessageStop
C12_Witness ==
    /\ stream = <<BlockStart(0, ToolUseStub(<<0, 0>>)), InputJsonDelta(0, JsonHead),
                  InputJsonDelta(0, JsonRest), BlockStop(0), MessageStop>>
    /\ decoder.stopped
    /\ decoder.tool_requests = <<1>>
    /\ decoder.assistant_blocks[1].input = ("action" :> Str("screenshot"))
    /\ collect_from_stream(stream).tool_requests
         = <<[type |-> "tool_use", id |-> <<0, 0>>, name |-> "computer",
              input |-> ("action" :> Str("screenshot"))]>>

\* C13: once the decoder has seen MessageStop it consumes no further event:
\* decoding s + [MessageStop] + t returns what decoding s + [MessageStop]
\* returns.
C13_NothingAfterMessageStop ==
    FirstStop(stream) > 0 =>
        /\ collect_from_stream(stream)
             = collect_from_stream(SubSeq(stream, 1, FirstStop(stream)))
        /\ ~decoder.raised =>
             Returned(decoder) = collect_from_stream(SubSeq(stream, 1, FirstStop(stream)))

\* after MessageStop came a delta for a block never started and a new
\* block; the decoder returns the one text block
C13_Witness ==
    /\ Len(stream) = 5
    /\ SubSeq(stream, 1, 3) = <<BlockStart(0, TextStub), TextDelta(0, "a"), MessageStop>>
    /\ SubSeq(stream, 4, 5) = <<TextDelta(1, "b"), BlockStart(1, ToolUseStub(<<0, 1>>))>>
    /\ collect_from_stream(stream).assistant_blocks = <<[type |-> "text", text |-> "a"]>>
    /\ collect_from_stream(stream).tool_requests = <<>>
    /\ ~decoder.raised

----------------------------------------------------------------------------
(* Properties of the loop's ends *)

\* run_agent_loop has been left, by a return or by an exception
Ended == pc \in {"returned", "crashed", "exited"}

\* the run ended on a KeyError raised by the decoder
DecodeErrorEnded == Ended /\ result.fault = "KeyError"

\* C14 (as claimed): a BlockDelta or BlockStop for an index without a
\* BlockStart makes the decoder fail and the iteration stop, and the run
\* then ends cleanly: run_agent_loop returns to main, which ends the run.
C14_DecodeErrorAbortsCleanly ==
    /\ collect_from_stream(BrokenStream).raised
    /\ collect_from_stream(<<BlockStop(0), MessageStop>>).raised
    /\ DecodeErrorEnded => pc \in {"returned", "exited"}

\* what the caller gets from a run that completed its task in iteration
\* iter, after st whole iterations
NormalCompletion(iter, st) ==
    [how |-> "done", retval |-> Num(iter), fault |-> "", i |-> iter, steps |-> st]

\* the response just decoded was an empty event sequence
LastResponseEmpty ==
    /\ pc = "dispatching"
    /\ tool_calls = <<>>
    /\ messages[Len(messages)] = AssistantMsg(<<>>)

\* C15 (as claimed): an empty event sequence decodes to no blocks and no
\* tool invocations without raising, and the run that received it ends in
\* a way the caller can tell from a completed task.
C15_EmptyStreamIsSurfaced ==
    /\ collect_from_stream(EmptyStream)
         = [raised |-> FALSE, assistant_blocks |-> <<>>, tool_requests |-> <<>>]
    /\ [][(LastResponseEmpty /\ Finish) => result' # NormalCompletion(i, steps)]_vars

\* C16: in iteration i, 1 <= i <= max_iterations, a decoded response
\* without tool invocation ends the run in Done(i): the assistant message
\* is in the log, run_agent_loop returns i, nothing is dispatched, and no
\* provider request follows.
C16_NoToolCallsEndsDone ==
    [][/\ (pc = "dispatching" /\ tool_calls = <<>>) =>
            /\ 1 <= i /\ i <= max_iterations
            /\ messages[Len(messages)].role = "assistant"
            /\ ~Interrupt =>
                /\ pc' = "returned"
                /\ result'.how = "done"
                /\ result'.retval = Num(i)
                /\ UNCHANGED <<PROCESSSTEP, PROCESSSTEP_ID, last>>
       /\ (pc = "returned" /\ result.how = "done") =>
            /\ pc' = "exited"
            /\ UNCHANGED <<PROCESSSTEP, PROCESSSTEP_ID, last, result>>]_vars

\* the second response had no tool invocation, after one action in the first
C16_Witness ==
    /\ pc = "returned"
    /\ result.how = "done"
    /\ result.retval = Num(2)
    /\ result.steps = 1
    /\ PROCESSSTEP = 1
    /\ last.id = <<1, 1>>

\* the ids of tool invocations and of tool_result blocks, in order
ToolUseIds(q) == [j \in 1 .. Len(q) |-> q[j].id]
ResultIds(q) == [j \in 1 .. Len(q) |-> q[j].tool_use_id]

\* C17: in an iteration with tool invocations the invocations are
\* dispatched one at a time in decode order; one user message is appended
\* after all of them, with one tool_result per invocation, in the same
\* order, each with its invocation's tool_use_id; the next provider request
\* comes only after that message.
C17_OneResultPerInvocationInOrder ==
    [][/\ (Dispatch /\ pc' = "dispatching") =>
            /\ Len(tool_results') = Len(tool_results) + 1
            /\ SubSeq(tool_results', 1, Len(tool_results)) = tool_results
            /\ last'.id = tool_calls[Len(tool_results) + 1].id
            /\ last'.tool_input = tool_calls[Len(tool_results) + 1].input
            /\ tool_results'[Len(tool_results')].tool_use_id = last'.id
            /\ Len(messages') = Len(messages)
            /\ tool_calls' = tool_calls
       /\ (pc = "dispatching" /\ pc' = "truncating") =>
            /\ tool_calls # <<>>
            /\ ResultIds(tool_results) = ToolUseIds(tool_calls)
            /\ messages' = Append(messages, [role |-> "user", content |-> List(tool_results)])
       /\ (pc = "loop" /\ pc' = "awaiting") =>
            /\ messages' = messages
            /\ \/ i = 0 /\ messages = <<UserPrompt>>
               \/ /\ messages[Len(messages)].role = "user"
                  /\ IsList(messages[Len(messages)].content)
                  /\ ResultIds(messages[Len(messages)].content.v) = ToolUseIds(tool_calls)
                  /\ messages[Len(messages) - 1].role = "assistant"]_vars

\* a screenshot and a click were asked for in one response; both results
\* are in the user message, the image first
C17_Witness ==
    /\ pc = "truncating"
    /\ Len(tool_calls) = 2
    /\ messages[Len(messages)] = [role |-> "user", content |-> List(tool_results)]
    /\ ResultIds(tool_results) = <<<<1, 1>>, <<1, 2>>>>
    /\ IsList(tool_results[1].content)
    /\ tool_results[2].content = Str("")

\* C18 (as claimed): with max_iterations = N and tool invocations in every
\* response the loop makes exactly N provider turns, never an (N+1)-th,
\* and ends with the budget exhausted, reporting the iteration count N.
C18_ExhaustedReportsCount ==
    /\ pc \in Active => i <= max_iterations
    /\ (Ended /\ result.how = "exhausted" /\ max_iterations >= 1) =>
            /\ result.i = max_iterations
            /\ result.steps = max_iterations
            /\ result.retval = Num(max_iterations)

\* C19 (as claimed): every way the run can end, a crash included, hands
\* control back to main with the action counter as it was, and main then
\* reports that counter.
C19_EveryEndIsReported ==
    [][/\ (pc \in Active /\ pc' \notin Active) =>
            /\ pc' = "returned"
            /\ PROCESSSTEP' = PROCESSSTEP
       /\ pc = "returned" =>
            /\ pc' = "exited"
            /\ reported' = Num(PROCESSSTEP)
            /\ PROCESSSTEP' = PROCESSSTEP]_vars

----------------------------------------------------------------------------
(* Properties of the pointer actions *)

\* the coordinate of the last call is absent or a point
LastCoordinate == Get(last.tool_input, "coordinate")
PointOrAbsent(coord) == coord = None \/ (IsList(coord) /\ Len(coord.v) = 2)

\* the last call, of one of kinds, returned without its effector raising
PointerCall(kinds) ==
    /\ last.n > 0
    /\ IsDict(last.tool_input)
    /\ LastKindIn(kinds)
    /\ PointOrAbsent(LastCoordinate)
    /\ ~last.out.raised

\* the last call succeeded, acting at its coordinate or, without one, at the
\* pointer's position
ActedAtPoint ==
    /\ last.out.flag = "text"
    /\ ~last.out.is_error
    /\ last.out.call.pt = (IF LastCoordinate = None THEN <<>> ELSE LastCoordinate.v)

\* C20 (as claimed): for mouse_move, left_click, right_click and
\* double_click the coordinate is optional: with one the action is done at
\* that point, without one at the pointer's position, and the dispatch
\* succeeds either way.
C20_CoordinateOptional == PointerCall(PointerKinds) => ActedAtPoint

\* C20 (amended): for left_click, right_click and double_click the
\* coordinate is optional: with one the action is done at that point,
\* without one at the pointer's position, and the dispatch succeeds unless
\* the effector raises.  mouse_move needs a coordinate list: with it the
\* pointer moves there, without it the request is rejected with
\* is_error = True and no effector call.
C20_CoordinateOptionalForClicks ==
    /\ PointerCall(PointerKinds \ {"mouse_move"}) => ActedAtPoint
    /\ (PointerCall({"mouse_move"}) /\ LastCoordinate # None) => ActedAtPoint
    /\ (PointerCall({"mouse_move"}) /\ LastCoordinate = None) =>
            /\ last.out.flag = "text"
            /\ last.out.is_error
            /\ last.out.result = Str(UnknownMsg)
            /\ last.out.call = NoCall

\* a double click at a point, after an earlier counted call
C20_Witness ==
    /\ last.n = 2
    /\ PointerCall({"double_click"})
    /\ LastCoordinate = List(<<10, 20>>)
    /\ last.out.call = Call("doubleClick", <<10, 20>>, 0, "")
    /\ ~last.out.is_error
    /\ PROCESSSTEP = 2

----------------------------------------------------------------------------
(* Properties of scrolling *)

LastDirection == Get(last.tool_input, "scroll_direction")
\* the scroll amount of the last call, 0 when it has none
LastAmount ==
    IF "scroll_amount" \in DOMAIN last.tool_input THEN last.tool_input["scroll_amount"].v
    ELSE 0

\* the last call was a scroll in one of the four directions whose effector
\* call returned
ScrollCall ==
    /\ last.n > 0
    /\ IsDict(last.tool_input)
    /\ LastKindIn({"scroll"})
    /\ LastDirection \in {Str("up"), Str("down"), Str("left"), Str("right")}
    /\ ~last.out.raised

\* C21: a scroll with a direction among up, down, left, right and amount n
\* (0 when absent) returns one successful text result and raises
\* PROCESSSTEP by 1; the effector gets 100 * n: up and down go to scroll,
\* down negative, left and right go to hscroll.
C21_ScrollScaledPerChannel ==
    ScrollCall =>
        /\ last.out.flag = "text"
        /\ last.out.result = Str("")
        /\ ~last.out.is_error
        /\ PROCESSSTEP = last.before + 1
        /\ LastDirection = Str("up") =>
                last.out.call = Call("scroll", <<>>, 100 * LastAmount, "")
        /\ LastDirection = Str("down") =>
                last.out.call = Call("scroll", <<>>, 0 - 100 * LastAmount, "")
        /\ LastDirection \in {Str("left"), Str("right")} =>
                /\ last.out.call.fn = "hscroll"
                /\ last.out.call.n \in {100 * LastAmount, 0 - 100 * LastAmount}

\* amount 3 down, after an earlier call: 300 units downward
C21_Witness ==
    /\ last.n = 2
    /\ ScrollCall
    /\ LastDirection = Str("down")
    /\ LastAmount = 3
    /\ last.out.call = Call("scroll", <<>>, 0 - 300, "")
    /\ ~last.out.is_error
    /\ PROCESSSTEP = last.before + 1

----------------------------------------------------------------------------
(* Properties of the step navigation *)

\* the cursor values the dispatcher can hold in the model's runs
Cursors == (0 - MaxDispatch) .. (MaxStepId + MaxDispatch)

\* the fallbacks of the three query functions, on every graph and cursor
FallbacksHold ==
    \A g \in Graphs \ {NoGraph} : \A id \in Cursors :
        /\ PrevRows(g, PyStr(id)) = {} =>
            get_prev_step(g, id) = {[ok |-> TRUE, id |-> id - 1, description |-> NoPrev]}
        /\ NextRows(g, PyStr(id)) = {} =>
            get_next_step(g, id) = {[ok |-> TRUE, id |-> id + 1, description |-> NoNext]}
        /\ CurrRows(g, PyStr(id)) = {} =>
            get_curr_step(g, id) = {[ok |-> TRUE, id |-> id, description |-> NoCurr]}

\* what the query function of the last call, a prev, next or curr, returns
LastQuery ==
    IF LastKindIn({"prev"}) THEN get_prev_step(graph_db, last.cursor)
    ELSE IF LastKindIn({"next"}) THEN get_next_step(graph_db, last.cursor)
    ELSE get_curr_step(graph_db, last.cursor)

\* the last call was a prev, next or curr on a graph, and returned
NavCall ==
    /\ last.n > 0
    /\ IsDict(last.tool_input)
    /\ LastKindIn(NavKinds)
    /\ graph_db # NoGraph
    /\ ~last.out.raised

\* the cursor holds the id the query returned, the result its description
CursorStored ==
    NavCall =>
        /\ ~last.out.is_error
        /\ \E r \in LastQuery :
            /\ r.ok
            /\ PROCESSSTEP_ID = r.id
            /\ last.out.result = Str(r.description)

\* C22: get_prev_step on a step without predecessor returns (id - 1,
\* sentinel), get_next_step without successor (id + 1, sentinel),
\* get_curr_step without such a step (id, sentinel); none of them changes
\* the graph, and the dispatcher's prev, next and curr store the returned
\* id as the cursor.
C22_FallbackAndCursor ==
    [][ExecuteTool => (FallbacksHold /\ CursorStored' /\ graph_db' = graph_db)]_vars

\* prev at step 1, which has no predecessor: the cursor is 0
C22_Witness ==
    /\ NavCall
    /\ LastKindIn({"prev"})
    /\ graph_db = ChainGraph
    /\ last.cursor = 1
    /\ PROCESSSTEP_ID = 0
    /\ last.out.result = Str(NoPrev)

----------------------------------------------------------------------------
(* Termination *)

\* C23: if the provider eventually accepts every request and every
\* effector call and sleep returns, run_agent_loop is eventually left, for
\* every max_iterations >= 0, and no provider turn beyond the
\* max_iterations-th is started.
C23_LoopTerminates ==
    /\ <>Ended
    /\ [](pc \in Active => (0 <= i /\ i <= max_iterations))

\* the budget ran out after two or more whole iterations
C23_Witness ==
    /\ pc = "returned"
    /\ result.how = "exhausted"
    /\ max_iterations >= 2
    /\ result.steps = max_iterations

----------------------------------------------------------------------------
(* Properties of the log's images *)

\* the places of the log that hold an image with a payload: <<j, k, 0>> for
\* block k of message j, <<j, k, m>> for block m inside tool_result k of
\* message j
PayloadPlaces(log) ==
    UNION {UNION {
        (IF Payload(log[j].content.v[k]) # "" /\ log[j].content.v[k] \in ImagesOfContent(log[j].content)
         THEN {<<j, k, 0>>} ELSE {})
        \cup (IF "content" \in DOMAIN log[j].content.v[k] /\ IsList(log[j].content.v[k].content)
              THEN {<<j, k, m>> : m \in {n \in 1 .. Len(log[j].content.v[k].content.v) :
                        LET blk == log[j].content.v[k].content.v[n]
                        IN  blk \in ImagesOfContent(log[j].content.v[k].content)
                            /\ Payload(blk) # ""}}
              ELSE {})
        : k \in 1 .. Len(log[j].content.v)}
      : j \in {n \in 1 .. Len(log) : IsList(log[n].content)}}

\* C24 (as claimed): whenever a provider request is issued, the log sent
\* with it holds at most one image payload that is not empty: the payloads
\* of earlier screenshot results have been blanked.
C24_OnePayloadPerRequest ==
    pc = "awaiting" => Cardinality(PayloadPlaces(messages)) <= 1

----------------------------------------------------------------------------
(* Pairing of the log's messages *)

\* a user message made of tool results (agent.py:590)
ToolResultMessage(m) == m.role = "user" /\ IsList(m.content)

\* the ids of the tool_use blocks of a message
ToolUseIdsOf(m) ==
    IF IsList(m.content)
    THEN {m.content.v[k].id : k \in {n \in 1 .. Len(m.content.v) :
                                        m.content.v[n].type = "tool_use"}}
    ELSE {}

\* message j of the log follows the assistant message that asked for its results
Paired(log, j) ==
    /\ j > 1
    /\ log[j - 1].role = "assistant"
    /\ \A k \in 1 .. Len(log[j].content.v) :
          log[j].content.v[k].tool_use_id \in ToolUseIdsOf(log[j - 1])

\* C25: every tool-result user message of the log, after the truncation as
\* before it, stands right after the assistant message that holds its
\* tool_use blocks; the window of 60 messages never starts with a
\* tool-result message whose assistant message was cut off.
C25_ResultsFollowTheirRequest ==
    \A j \in 1 .. Len(messages) : ToolResultMessage(messages[j]) => Paired(messages, j)

\* the truncation of iteration 31 or later has cut the oldest pair off: the
\* window starts with the assistant message of iteration 2 or later
C25_Witness ==
    /\ pc = "loop"
    /\ flag = "image"
    /\ steps = i
    /\ i >= 31
    /\ Len(messages) = WINDOW + 1
    /\ messages[2].role = "assistant"
    /\ <<1, 1>> \notin ToolUseIdsOf(messages[2])
    /\ ToolResultMessage(messages[3])

====
